---------------------------- MODULE Spec2Model ----------------------------
(***************************************************************************)
(* Reliable transport over a lossy, corrupting FIFO channel:               *)
(*   part 1  stop-and-wait with NAK   (src/transport/part1.py)             *)
(*   part 2  Go-Back-N                (src/transport/part2.py)             *)
(* Names ending in 1 belong to part 1, names ending in 2 to part 2.        *)
(* The entities' methods are operators from (state, input) to a record of  *)
(* the new state and of the calls made to the simulator (l3: to_layer3,    *)
(* l5: to_layer5, tm: start_timer/stop_timer), in call order.  The actions *)
(* apply those calls to the channel, the sink and the timer.               *)
(***************************************************************************)
EXTENDS Integers, Sequences, FiniteSets, TLC

(* ------------------------------ bounds --------------------------------- *)
\* largest seqnum_limit handed to the part 1 constructors (2..MaxSeqnumLimit1)
MaxSeqnumLimit1 == 3
\* messages the application submits in one run of part 1
MaxMsgs1 == 2
\* packets one direction of the part 1 channel holds; a packet sent to a full
\* channel is lost
MaxChan1 == 1
\* packets the part 1 channel loses or corrupts in a run where it is fair
\* ("delivers every packet intact after finitely many losses/corruptions")
MaxFaults1 == 2

\* seqnum_limit handed to the part 2 constructors
SeqnumLimit2 == 10
\* messages the application submits in one run of part 2
MaxMsgs2 == 11
\* packets one direction of the part 2 channel holds
MaxChan2 == 1

\* a seqnum_limit of part 2 small enough for the seqnums to wrap around several
\* times in a run, and the messages submitted in such a run
ShortSeqnumLimit2 == 3
ShortMsgs2 == 5

\* messages submitted, and packets lost or corrupted, in a run of part 2
\* where the channel is fair
MaxMsgsLive2 == 3
MaxFaults2 == 1

(* ------------------------- program constants --------------------------- *)
MSG_SIZE == 20
\* the byte of b'                    ', the payload of a NAK
BLANK == 32
\* start_timer(self, 10.0) is the only timer value: the timer is a flag

\* a payload of MSG_SIZE equal bytes
Fill(b) == [i \in 1..MSG_SIZE |-> b]
NAK_PAYLOAD == Fill(BLANK)

Pkt(seqnum, acknum, checksum, payload) ==
    [seqnum |-> seqnum, acknum |-> acknum, checksum |-> checksum, payload |-> payload]

\* one pass of the loop body's carry fold on the sum c:
\*   if checksum & 0xFFFF0000: checksum &= 0xFFFF; checksum += 1
\* (c is below 2^17 here; v is bound to the value of c, evaluated once)
Fold(c) ==
    CHOOSE r \in {IF v >= 65536 THEN (v % 65536) + 1 ELSE v : v \in {c}} : TRUE

\* the loop of calc_checksum over the 16-bit little-endian words of the payload
RECURSIVE SumWords(_, _, _)
SumWords(payload, i, checksum) ==
    IF i > Len(payload) THEN checksum
    ELSE SumWords(payload, i + 2,
                  Fold(checksum + payload[i] + payload[i + 1] * 256))

\* ~(x & 0xFFFF) on Python's unbounded integers is -(x mod 2^16) - 1
\* a weaker checksum, which leaves acknum out of the sum: SingleBitDetected
\* tells it from calc_checksum
calc_checksum_no_acknum(pkt) ==
    LET checksum == SumWords(pkt.payload, 1, 0) + pkt.seqnum
    IN  -(checksum % 65536) - 1

calc_checksum(pkt) ==
    LET checksum == SumWords(pkt.payload, 1, 0) + pkt.seqnum + pkt.acknum
    IN  -(checksum % 65536) - 1

WithChecksum(pkt) == [pkt EXCEPT !.checksum = calc_checksum(pkt)]


(* ------------------- the simulator: channel and timer ------------------ *)
\* what the channel does to a packet it corrupts: "either the header or the
\* data portion" is altered; one field takes a value no entity ever sends
CORRUPT_BYTE == 90
CORRUPT_NUM == 999999
CorruptKinds == {"payload", "seqnum", "acknum"}
Corrupt(p, kind) ==
    CASE kind = "payload" -> [p EXCEPT !.payload = [p.payload EXCEPT ![1] = CORRUPT_BYTE]]
      [] kind = "seqnum"  -> [p EXCEPT !.seqnum = CORRUPT_NUM]
      [] kind = "acknum"  -> [p EXCEPT !.acknum = CORRUPT_NUM]

\* to_layer3 for each packet of l3, in order, on a channel holding at most cap
\* packets: the channel is FIFO, and a packet that finds it full is lost
RECURSIVE to_layer3(_, _, _)
to_layer3(chan, l3, cap) ==
    IF l3 = <<>> THEN chan
    ELSE to_layer3(IF Len(chan) < cap THEN Append(chan, Head(l3)) ELSE chan,
                   Tail(l3), cap)

\* the timer flag after the calls tm: start_timer on a running timer only
\* warns and leaves it running, stop_timer on a stopped one does nothing
RECURSIVE timer_after(_, _)
timer_after(running, tm) ==
    IF tm = <<>> THEN running
    ELSE timer_after(Head(tm) = "start", Tail(tm))

NoPkt == Pkt(-1, -1, 0, <<>>)
None == <<>>
\* what a call leaves behind: the entity, its calls to the simulator, and the
\* exception that ended it, if any
Raise(self, l3, l5, tm, raised) ==
    [self |-> self, l3 |-> l3, l5 |-> l5, tm |-> tm, raised |-> raised]
Out(self, l3, l5, tm) == Raise(self, l3, l5, tm, "none")

(* =========================== part 1: entities ========================== *)
Snd1_init(seqnum_limit) ==
    [seqnum_limit |-> seqnum_limit, seqnum |-> 0, acknum |-> 0,
     cur_seqnum |-> 1, message |-> None]

Snd1_send(self, message) ==
    LET pkt == WithChecksum(Pkt(self.cur_seqnum, self.acknum, 0, message))
    IN  IF self.acknum = self.seqnum
        THEN Out([self EXCEPT !.message = message], <<pkt>>, <<>>, <<"start">>)
        ELSE Out(self, <<>>, <<>>, <<>>)

\* a faulty sender that accepts a NAK whose acknum is the pending seqnum:
\* SndRecvFrame1 tells it from Snd1_recv
Snd1_recv_no_nak_test(self, pkt) ==
    LET correct_checksum == pkt.checksum = calc_checksum(pkt)
        correct_acknum == self.cur_seqnum = pkt.acknum
    IN  IF correct_checksum /\ correct_acknum
        THEN Out([self EXCEPT !.seqnum = self.cur_seqnum,
                              !.acknum = self.cur_seqnum,
                              !.cur_seqnum = (self.cur_seqnum + 1) % self.seqnum_limit],
                 <<>>, <<>>, <<"stop">>)
        ELSE Out(self, <<>>, <<>>, <<>>)

Snd1_recv(self, pkt) ==
    LET correct_checksum == pkt.checksum = calc_checksum(pkt)
        correct_acknum == pkt.payload # NAK_PAYLOAD /\ self.cur_seqnum = pkt.acknum
    IN  IF correct_checksum /\ correct_acknum
        THEN Out([self EXCEPT !.seqnum = self.cur_seqnum,
                              !.acknum = self.cur_seqnum,
                              !.cur_seqnum = (self.cur_seqnum + 1) % self.seqnum_limit],
                 <<>>, <<>>, <<"stop">>)
        ELSE Out(self, <<>>, <<>>, <<>>)

Snd1_timer_interrupt(self) == Snd1_send(self, self.message)

Rcv1_init(seqnum_limit) ==
    [seqnum_limit |-> seqnum_limit, seqnum |-> 1, last_acked |-> 0]

\* a faulty receiver whose NAK carries its expected seqnum as acknum:
\* NakOnReject1 tells it from Rcv1_recv
Rcv1_recv_nak_expected(self, packet) ==
    LET expected == packet.seqnum = self.seqnum \/ packet.seqnum = self.last_acked
        correct_checksum == packet.checksum = calc_checksum(packet)
        ack == WithChecksum(Pkt(packet.seqnum, packet.seqnum, 0, packet.payload))
        nack == WithChecksum(Pkt(self.seqnum, self.seqnum, 0, NAK_PAYLOAD))
    IN  IF expected /\ correct_checksum
        THEN Out([self EXCEPT !.last_acked = packet.seqnum,
                              !.seqnum = (packet.seqnum + 1) % self.seqnum_limit],
                 <<ack>>,
                 IF packet.seqnum # self.last_acked THEN <<packet.payload>> ELSE <<>>,
                 <<>>)
        ELSE Out(self, <<nack>>, <<>>, <<>>)

\* a faulty receiver that passes every accepted packet up, duplicates
\* included: DuplicateSuppressed1 tells it from Rcv1_recv
Rcv1_recv_redeliver(self, packet) ==
    LET expected == packet.seqnum = self.seqnum \/ packet.seqnum = self.last_acked
        correct_checksum == packet.checksum = calc_checksum(packet)
        ack == WithChecksum(Pkt(packet.seqnum, packet.seqnum, 0, packet.payload))
        nack == WithChecksum(Pkt(self.seqnum, packet.seqnum, 0, NAK_PAYLOAD))
    IN  IF expected /\ correct_checksum
        THEN Out([self EXCEPT !.last_acked = packet.seqnum,
                              !.seqnum = (packet.seqnum + 1) % self.seqnum_limit],
                 <<ack>>, <<packet.payload>>, <<>>)
        ELSE Out(self, <<nack>>, <<>>, <<>>)

Rcv1_recv(self, packet) ==
    LET expected == packet.seqnum = self.seqnum \/ packet.seqnum = self.last_acked
        correct_checksum == packet.checksum = calc_checksum(packet)
        ack == WithChecksum(Pkt(packet.seqnum, packet.seqnum, 0, packet.payload))
        nack == WithChecksum(Pkt(self.seqnum, packet.seqnum, 0, NAK_PAYLOAD))
    IN  IF expected /\ correct_checksum
        THEN Out([self EXCEPT !.last_acked = packet.seqnum,
                              !.seqnum = (packet.seqnum + 1) % self.seqnum_limit],
                 <<ack>>,
                 IF packet.seqnum # self.last_acked THEN <<packet.payload>> ELSE <<>>,
                 <<>>)
        ELSE Out(self, <<nack>>, <<>>, <<>>)

(* ============================ part 1: system =========================== *)
VARIABLES
    snd1,        \* the SndTransport instance
    rcv1,        \* the RcvTransport instance
    timer1,      \* the sender's timer is running
    toRcv1,      \* packets in flight from sender to receiver, oldest first
    toSnd1,      \* packets in flight from receiver to sender, oldest first
    submitted1,  \* the messages layer 5 handed to send, in order
    delivered1,  \* the payloads the receiver handed to to_layer5, in order
    last1,       \* the last call into an entity: its input, the state before
                 \* it, and the calls it made
    faults1      \* packets lost or corrupted so far, counted where the channel
                 \* is fair (Live1) and 0 elsewhere

vars1 == <<snd1, rcv1, timer1, toRcv1, toSnd1, submitted1, delivered1, last1,
           faults1>>

\* the payloads layer 5 submits in part 1: a letter's and the all-blank one
Payloads1 == {Fill(97), NAK_PAYLOAD}

Call(op, pkt, msg, snd, rcv, timer, out) ==
    [op |-> op, pkt |-> pkt, msg |-> msg,
     pre |-> [snd |-> snd, rcv |-> rcv, timer |-> timer],
     post |-> out.self, l3 |-> out.l3, l5 |-> out.l5, tm |-> out.tm,
     raised |-> out.raised]

NoCall == [op |-> "none", pkt |-> NoPkt, msg |-> None,
           pre |-> [snd |-> None, rcv |-> None, timer |-> FALSE],
           post |-> None, l3 |-> <<>>, l5 |-> <<>>, tm |-> <<>>,
           raised |-> "none"]

\* a call into the sender, with the effect of the calls it makes
SndStep1(op, pkt, msg, timer, out) ==
    /\ snd1' = out.self
    /\ toRcv1' = to_layer3(toRcv1, out.l3, MaxChan1)
    /\ timer1' = timer_after(timer, out.tm)
    /\ last1' = Call(op, pkt, msg, snd1, rcv1, timer, out)
    /\ UNCHANGED <<rcv1, delivered1>>

\* a call into the receiver, with the effect of the calls it makes
RcvStep1(pkt, out) ==
    /\ rcv1' = out.self
    /\ toSnd1' = to_layer3(toSnd1, out.l3, MaxChan1)
    /\ delivered1' = delivered1 \o out.l5
    /\ last1' = Call("rcv_recv", pkt, None, snd1, rcv1, timer1, out)
    /\ UNCHANGED <<snd1, timer1, submitted1>>

\* layer 5 has a message: it calls send, whatever the sender's state
AppSend1 ==
    /\ Len(submitted1) < MaxMsgs1
    /\ \E m \in Payloads1 :
          /\ submitted1' = Append(submitted1, m)
          /\ SndStep1("send", NoPkt, m, timer1, Snd1_send(snd1, m))
    /\ UNCHANGED toSnd1

\* the timer expires: it is no longer running when timer_interrupt is called
Timeout1 ==
    /\ timer1
    /\ SndStep1("timer_interrupt", NoPkt, None, FALSE, Snd1_timer_interrupt(snd1))
    /\ UNCHANGED <<toSnd1, submitted1>>

RcvDeliver1 ==
    /\ toRcv1 # <<>>
    /\ toRcv1' = Tail(toRcv1)
    /\ RcvStep1(Head(toRcv1), Rcv1_recv(rcv1, Head(toRcv1)))

RcvDeliverCorrupt1 ==
    /\ toRcv1 # <<>>
    /\ toRcv1' = Tail(toRcv1)
    /\ \E kind \in CorruptKinds :
          LET p == Corrupt(Head(toRcv1), kind)
          IN  RcvStep1(p, Rcv1_recv(rcv1, p))

LoseData1 ==
    /\ toRcv1 # <<>>
    /\ toRcv1' = Tail(toRcv1)
    /\ UNCHANGED <<snd1, rcv1, timer1, toSnd1, submitted1, delivered1, last1>>

SndDeliver1 ==
    /\ toSnd1 # <<>>
    /\ toSnd1' = Tail(toSnd1)
    /\ SndStep1("snd_recv", Head(toSnd1), None, timer1, Snd1_recv(snd1, Head(toSnd1)))
    /\ UNCHANGED submitted1

SndDeliverCorrupt1 ==
    /\ toSnd1 # <<>>
    /\ toSnd1' = Tail(toSnd1)
    /\ \E kind \in CorruptKinds :
          LET p == Corrupt(Head(toSnd1), kind)
          IN  SndStep1("snd_recv", p, None, timer1, Snd1_recv(snd1, p))
    /\ UNCHANGED submitted1

LoseAck1 ==
    /\ toSnd1 # <<>>
    /\ toSnd1' = Tail(toSnd1)
    /\ UNCHANGED <<snd1, rcv1, timer1, toRcv1, submitted1, delivered1, last1>>

(* =========================== part 2: entities ========================== *)
WINDOW_SIZE == 8

Snd2_init(seqnum_limit) ==
    [seqnum_limit |-> seqnum_limit, seqnum |-> 0, acknum |-> 0,
     cur_seqnum |-> 1, message |-> None, base |-> 0,
     window_size |-> WINDOW_SIZE, buffer |-> <<>>]

\* del buffer[k]
Del(buffer, k) == [x \in (DOMAIN buffer) \ {k} |-> buffer[x]]

\* a faulty send that transmits the packet without keeping it in the buffer:
\* NoKeyError2 tells it from Snd2_send
Snd2_send_unbuffered(self, message) ==
    IF self.cur_seqnum < self.base + self.window_size
    THEN LET pkt == WithChecksum(Pkt(self.cur_seqnum, self.acknum, 0, message))
         IN  Out([self EXCEPT !.cur_seqnum = (self.cur_seqnum + 1) % self.seqnum_limit],
                 <<pkt>>, <<>>,
                 IF self.base = self.cur_seqnum THEN <<"start">> ELSE <<>>)
    ELSE Raise(self, <<>>, <<>>, <<>>, "SystemExit")

Snd2_send(self, message) ==
    IF self.cur_seqnum < self.base + self.window_size
    THEN LET pkt == WithChecksum(Pkt(self.cur_seqnum, self.acknum, 0, message))
         IN  Out([self EXCEPT !.buffer = (self.cur_seqnum :> pkt) @@ self.buffer,
                              !.cur_seqnum = (self.cur_seqnum + 1) % self.seqnum_limit],
                 <<pkt>>, <<>>,
                 IF self.base = self.cur_seqnum THEN <<"start">> ELSE <<>>)
    ELSE Raise(self, <<>>, <<>>, <<>>, "SystemExit")

\* while self.base != new_base: drop buffer[self.base], step self.base
RECURSIVE MoveWindow(_, _)
MoveWindow(self, new_base) ==
    IF self.base = new_base THEN self
    ELSE MoveWindow([self EXCEPT !.buffer = Del(self.buffer, self.base),
                                 !.base = (self.base + 1) % self.seqnum_limit],
                    new_base)

\* a faulty sender that stops the timer on every intact in-range packet,
\* cumulative ACK or not: DiscardFrame2 tells it from Snd2_recv
Snd2_recv_stop_always(self, pkt) ==
    LET correct_checksum == pkt.checksum = calc_checksum(pkt)
        correct_acknum == /\ self.base <= pkt.acknum
                          /\ pkt.acknum <= self.base + self.window_size
    IN  IF ~correct_checksum \/ ~correct_acknum
        THEN Out(self, <<>>, <<>>, <<>>)
        ELSE IF pkt.acknum >= self.base /\ pkt.acknum < self.cur_seqnum
             THEN Out(MoveWindow(self, (pkt.acknum + 1) % self.seqnum_limit),
                      <<>>, <<>>, <<"stop">>)
             ELSE Out(self, <<>>, <<>>, <<"stop">>)

Snd2_recv(self, pkt) ==
    LET correct_checksum == pkt.checksum = calc_checksum(pkt)
        correct_acknum == /\ self.base <= pkt.acknum
                          /\ pkt.acknum <= self.base + self.window_size
    IN  IF ~correct_checksum \/ ~correct_acknum
        THEN Out(self, <<>>, <<>>, <<>>)
        ELSE IF pkt.acknum >= self.base /\ pkt.acknum < self.cur_seqnum
             THEN Out(MoveWindow(self, (pkt.acknum + 1) % self.seqnum_limit),
                      <<>>, <<>>, <<"stop">>)
             ELSE Out(self, <<>>, <<>>, <<>>)

\* for seqnum in range(seqnum, stop): to_layer3(self.buffer[seqnum]); a key
\* missing from the buffer raises KeyError after the packets before it went out
RECURSIVE Resend(_, _, _, _)
Resend(self, seqnum, stop, l3) ==
    IF seqnum >= stop THEN Out(self, l3, <<>>, <<"start">>)
    ELSE IF seqnum \notin DOMAIN self.buffer
         THEN Raise(self, l3, <<>>, <<"start">>, "KeyError")
         ELSE Resend(self, seqnum + 1, stop, Append(l3, self.buffer[seqnum]))

Snd2_timer_interrupt(self) == Resend(self, self.base, self.cur_seqnum, <<>>)

Rcv2_init(seqnum_limit) ==
    [seqnum_limit |-> seqnum_limit, seqnum |-> 1, last_acked |-> 0]

\* a faulty test that accepts an intact packet whatever its seqnum:
\* InOrderOnly2 tells it from Rcv2_accepts
Rcv2_accepts_any_seqnum(self, packet) ==
    packet.checksum = calc_checksum(packet)

Rcv2_accepts(self, packet) ==
    packet.seqnum = self.seqnum /\ packet.checksum = calc_checksum(packet)

\* a faulty reply that echoes the seqnum of the packet received: ReplyExpected2
\* tells it from Rcv2_ack
Rcv2_ack_incoming(next, packet) ==
    WithChecksum(Pkt(packet.seqnum, packet.seqnum, 0, packet.payload))

\* the seqnum and acknum of the reply: the expected seqnum after the packet
Rcv2_ack(next, packet) == WithChecksum(Pkt(next.seqnum, next.seqnum, 0, packet.payload))

Rcv2_recv(self, packet) ==
    LET next == IF Rcv2_accepts(self, packet)
                THEN [self EXCEPT !.seqnum = (self.seqnum + 1) % self.seqnum_limit,
                                  !.last_acked = packet.seqnum]
                ELSE self
    IN  Out(next, <<Rcv2_ack(next, packet)>>,
            IF Rcv2_accepts(self, packet) THEN <<packet.payload>> ELSE <<>>,
            <<>>)

(* ============================ part 2: system =========================== *)
VARIABLES
    snd2,        \* the SndTransport instance
    rcv2,        \* the RcvTransport instance
    timer2,      \* the sender's timer is running
    toRcv2,      \* packets in flight from sender to receiver, oldest first
    toSnd2,      \* packets in flight from receiver to sender, oldest first
    nsubmitted2, \* how many messages layer 5 handed to send
    delivered2,  \* the payloads the receiver handed to to_layer5, in order
    last2,       \* the last call into an entity, as last1
    halted2,     \* the exception that ended the run, or "none"
    faults2      \* packets lost or corrupted so far, counted where the channel
                 \* is fair (Live2) and 0 elsewhere

vars2 == <<snd2, rcv2, timer2, toRcv2, toSnd2, nsubmitted2, delivered2, last2,
           halted2, faults2>>

\* the n-th message layer 5 submits: 20 copies of a letter, a new one each time
Msg2(n) == Fill(96 + n)

\* a call into the sender, with the effect of the calls it makes; an
\* exception it raises ends the run
SndStep2(op, pkt, msg, timer, out) ==
    /\ snd2' = out.self
    /\ toRcv2' = to_layer3(toRcv2, out.l3, MaxChan2)
    /\ timer2' = timer_after(timer, out.tm)
    /\ last2' = Call(op, pkt, msg, snd2, rcv2, timer, out)
    /\ halted2' = out.raised
    /\ UNCHANGED <<rcv2, delivered2>>

RcvStep2(pkt, out) ==
    /\ rcv2' = out.self
    /\ toSnd2' = to_layer3(toSnd2, out.l3, MaxChan2)
    /\ delivered2' = delivered2 \o out.l5
    /\ last2' = Call("rcv_recv", pkt, None, snd2, rcv2, timer2, out)
    /\ UNCHANGED <<snd2, timer2, nsubmitted2, halted2>>

AppSend2 ==
    /\ halted2 = "none"
    /\ nsubmitted2 < MaxMsgs2
    /\ nsubmitted2' = nsubmitted2 + 1
    /\ SndStep2("send", NoPkt, Msg2(nsubmitted2 + 1), timer2,
                Snd2_send(snd2, Msg2(nsubmitted2 + 1)))
    /\ UNCHANGED toSnd2

Timeout2 ==
    /\ halted2 = "none"
    /\ timer2
    /\ SndStep2("timer_interrupt", NoPkt, None, FALSE, Snd2_timer_interrupt(snd2))
    /\ UNCHANGED <<toSnd2, nsubmitted2>>

RcvDeliver2 ==
    /\ halted2 = "none"
    /\ toRcv2 # <<>>
    /\ toRcv2' = Tail(toRcv2)
    /\ RcvStep2(Head(toRcv2), Rcv2_recv(rcv2, Head(toRcv2)))

RcvDeliverCorrupt2 ==
    /\ halted2 = "none"
    /\ toRcv2 # <<>>
    /\ toRcv2' = Tail(toRcv2)
    /\ \E kind \in CorruptKinds :
          LET p == Corrupt(Head(toRcv2), kind)
          IN  RcvStep2(p, Rcv2_recv(rcv2, p))

LoseData2 ==
    /\ halted2 = "none"
    /\ toRcv2 # <<>>
    /\ toRcv2' = Tail(toRcv2)
    /\ UNCHANGED <<snd2, rcv2, timer2, toSnd2, nsubmitted2, delivered2, last2, halted2>>

SndDeliver2 ==
    /\ halted2 = "none"
    /\ toSnd2 # <<>>
    /\ toSnd2' = Tail(toSnd2)
    /\ SndStep2("snd_recv", Head(toSnd2), None, timer2, Snd2_recv(snd2, Head(toSnd2)))
    /\ UNCHANGED nsubmitted2

SndDeliverCorrupt2 ==
    /\ halted2 = "none"
    /\ toSnd2 # <<>>
    /\ toSnd2' = Tail(toSnd2)
    /\ \E kind \in CorruptKinds :
          LET p == Corrupt(Head(toSnd2), kind)
          IN  SndStep2("snd_recv", p, None, timer2, Snd2_recv(snd2, p))
    /\ UNCHANGED nsubmitted2

LoseAck2 ==
    /\ halted2 = "none"
    /\ toSnd2 # <<>>
    /\ toSnd2' = Tail(toSnd2)
    /\ UNCHANGED <<snd2, rcv2, timer2, toRcv2, nsubmitted2, delivered2, last2, halted2>>

(* ====================== the checksum, on its own ====================== *)
VARIABLES
    ckPkt,       \* a packet built by a sender: NoPkt, then the packet before
                 \* and after pkt.checksum = calc_checksum(pkt)
    ckRcv        \* that packet as the channel hands it to recv, or NoPkt

varsCk == <<ckPkt, ckRcv>>

\* no packet is under test
StartCk == ckPkt = NoPkt /\ ckRcv = NoPkt

vars == <<vars1, vars2, varsCk>>

\* the pair of part 1 as constructed, for any seqnum_limit from 2 up
Start1(seqnum_limit) ==
    /\ snd1 = Snd1_init(seqnum_limit)
    /\ rcv1 = Rcv1_init(seqnum_limit)
    /\ timer1 = FALSE
    /\ toRcv1 = <<>>
    /\ toSnd1 = <<>>
    /\ submitted1 = <<>>
    /\ delivered1 = <<>>
    /\ last1 = NoCall
    /\ faults1 = 0

Start2(seqnum_limit) ==
    /\ snd2 = Snd2_init(seqnum_limit)
    /\ rcv2 = Rcv2_init(seqnum_limit)
    /\ timer2 = FALSE
    /\ toRcv2 = <<>>
    /\ toSnd2 = <<>>
    /\ nsubmitted2 = 0
    /\ delivered2 = <<>>
    /\ last2 = NoCall
    /\ halted2 = "none"
    /\ faults2 = 0

(* ---- part 1, with an application that calls send at any time ---- *)
Init1 ==
    /\ \E limit \in 2..MaxSeqnumLimit1 : Start1(limit)
    /\ Start2(SeqnumLimit2)
    /\ StartCk

\* part 2 is not running
Idle2 == UNCHANGED <<faults1, vars2, varsCk>>

Next1 ==
    \/ AppSend1 /\ Idle2
    \/ Timeout1 /\ Idle2
    \/ RcvDeliver1 /\ Idle2
    \/ RcvDeliverCorrupt1 /\ Idle2
    \/ LoseData1 /\ Idle2
    \/ SndDeliver1 /\ Idle2
    \/ SndDeliverCorrupt1 /\ Idle2
    \/ LoseAck1 /\ Idle2

Spec1 == Init1 /\ [][Next1]_vars

(* ---- part 1, every seqnum_limit from 1 on ---- *)
InitAny1 ==
    /\ \E limit \in 1..MaxSeqnumLimit1 : Start1(limit)
    /\ Start2(SeqnumLimit2)
    /\ StartCk

SpecAny1 == InitAny1 /\ [][Next1]_vars

(* ---- part 1, with a fair channel and an application that keeps the ---- *)
(* ---- contract of send                                              ---- *)
\* layer 5 calls send only when no packet is outstanding (the timer runs
\* from the sending of a packet to the acceptance of its ACK)
AppSendIdle1 ==
    /\ ~timer1
    /\ AppSend1
    /\ Idle2

LiveTimeout1 == Timeout1 /\ Idle2
LiveRcvDeliver1 == RcvDeliver1 /\ Idle2
LiveSndDeliver1 == SndDeliver1 /\ Idle2

\* the channel loses or corrupts a packet, at most MaxFaults1 times in a run
Fault1 ==
    /\ faults1 < MaxFaults1
    /\ faults1' = faults1 + 1
    /\ \/ RcvDeliverCorrupt1
       \/ LoseData1
       \/ SndDeliverCorrupt1
       \/ LoseAck1
    /\ UNCHANGED <<vars2, varsCk>>

NextLive1 ==
    \/ AppSendIdle1
    \/ LiveTimeout1
    \/ LiveRcvDeliver1
    \/ LiveSndDeliver1
    \/ Fault1

\* a running timer expires, and a packet in the channel arrives
Fair1 ==
    /\ WF_vars(LiveTimeout1)
    /\ WF_vars(LiveRcvDeliver1)
    /\ WF_vars(LiveSndDeliver1)

Live1 == Init1 /\ [][NextLive1]_vars /\ Fair1

(* ---- part 2, with an application that calls send at any time ---- *)
Init2 ==
    /\ Start1(2)
    /\ Start2(SeqnumLimit2)
    /\ StartCk

\* part 1 is not running
Idle1 == UNCHANGED <<vars1, faults2, varsCk>>

Next2 ==
    \/ AppSend2 /\ Idle1
    \/ Timeout2 /\ Idle1
    \/ RcvDeliver2 /\ Idle1
    \/ RcvDeliverCorrupt2 /\ Idle1
    \/ LoseData2 /\ Idle1
    \/ SndDeliver2 /\ Idle1
    \/ SndDeliverCorrupt2 /\ Idle1
    \/ LoseAck2 /\ Idle1

Spec2 == Init2 /\ [][Next2]_vars

(* ---- part 2 with a short seqnum space ---- *)
InitShort2 ==
    /\ Start1(2)
    /\ Start2(ShortSeqnumLimit2)
    /\ StartCk

AppSendShort2 ==
    /\ nsubmitted2 < ShortMsgs2
    /\ AppSend2
    /\ Idle1

NextShort2 ==
    \/ AppSendShort2
    \/ Timeout2 /\ Idle1
    \/ RcvDeliver2 /\ Idle1
    \/ RcvDeliverCorrupt2 /\ Idle1
    \/ LoseData2 /\ Idle1
    \/ SndDeliver2 /\ Idle1
    \/ SndDeliverCorrupt2 /\ Idle1
    \/ LoseAck2 /\ Idle1

Short2 == InitShort2 /\ [][NextShort2]_vars

(* ---- part 2, with a fair channel and an application that never calls ---- *)
(* ---- send while the window is full                                   ---- *)
\* the seqnums of [base, next_seq) taken modulo seqnum_limit
Outstanding2(self) == (self.cur_seqnum - self.base) % self.seqnum_limit

AppSendWindow2 ==
    /\ Outstanding2(snd2) < snd2.window_size
    /\ nsubmitted2 < MaxMsgsLive2
    /\ AppSend2
    /\ Idle1

LiveTimeout2 == Timeout2 /\ Idle1
LiveRcvDeliver2 == RcvDeliver2 /\ Idle1
LiveSndDeliver2 == SndDeliver2 /\ Idle1

\* the channel loses or corrupts a packet, at most MaxFaults2 times in a run
Fault2 ==
    /\ faults2 < MaxFaults2
    /\ faults2' = faults2 + 1
    /\ \/ RcvDeliverCorrupt2
       \/ LoseData2
       \/ SndDeliverCorrupt2
       \/ LoseAck2
    /\ UNCHANGED <<vars1, varsCk>>

NextLive2 ==
    \/ AppSendWindow2
    \/ LiveTimeout2
    \/ LiveRcvDeliver2
    \/ LiveSndDeliver2
    \/ Fault2

Fair2 ==
    /\ WF_vars(LiveTimeout2)
    /\ WF_vars(LiveRcvDeliver2)
    /\ WF_vars(LiveSndDeliver2)

Live2 == Init2 /\ [][NextLive2]_vars /\ Fair2

(* ---- the checksum of one packet, and the packet with one bit flipped ---- *)
\* payload bytes, and seqnums and acknums, of the packets under test
CkBytes == {0, 32, 97, 255}
CkNums == {0, 1, 9, 255, 65535}
CkPayloads ==
    {Fill(b) : b \in CkBytes}
        \cup {[i \in 1..MSG_SIZE |-> IF i % 2 = 1 THEN 255 ELSE 0],
              [i \in 1..MSG_SIZE |-> (i * 13) % 256]}

\* n with bit b flipped
FlipBit(n, b) == IF (n \div (2 ^ b)) % 2 = 1 THEN n - 2 ^ b ELSE n + 2 ^ b

InitCk ==
    /\ Start1(2)
    /\ Start2(SeqnumLimit2)
    /\ \E payload \in CkPayloads, seqnum \in CkNums, acknum \in CkNums :
          ckPkt = Pkt(seqnum, acknum, 0, payload)
    /\ ckRcv = NoPkt

IdleAll == UNCHANGED <<vars1, vars2>>

\* pkt.checksum = calc_checksum(pkt); to_layer3(pkt), delivered as sent
CkSend ==
    /\ ckRcv = NoPkt
    /\ ckPkt' = WithChecksum(ckPkt)
    /\ ckRcv' = ckPkt'
    /\ IdleAll

\* the channel flips one bit of the payload, of seqnum or of acknum of the
\* packet sent
CkFlipPayload ==
    /\ ckRcv # NoPkt
    /\ ckRcv = ckPkt
    /\ \E i \in 1..MSG_SIZE, b \in 0..7 :
          ckRcv' = [ckPkt EXCEPT !.payload[i] = FlipBit(@, b)]
    /\ UNCHANGED ckPkt
    /\ IdleAll

CkFlipSeqnum ==
    /\ ckRcv # NoPkt
    /\ ckRcv = ckPkt
    /\ \E b \in 0..15 : ckRcv' = [ckPkt EXCEPT !.seqnum = FlipBit(@, b)]
    /\ UNCHANGED ckPkt
    /\ IdleAll

CkFlipAcknum ==
    /\ ckRcv # NoPkt
    /\ ckRcv = ckPkt
    /\ \E b \in 0..15 : ckRcv' = [ckPkt EXCEPT !.acknum = FlipBit(@, b)]
    /\ UNCHANGED ckPkt
    /\ IdleAll

NextCk ==
    \/ CkSend
    \/ CkFlipPayload
    \/ CkFlipSeqnum
    \/ CkFlipAcknum

SpecCk == InitCk /\ [][NextCk]_vars

IsPrefix(s, t) == Len(s) <= Len(t) /\ s = SubSeq(t, 1, Len(s))

(* ============================ part 1: claims =========================== *)

\* C1: under Live1 (fair channel and timer, application keeping the contract
\* of send) the n-th message submitted, whatever its payload, is eventually
\* delivered upward and its ACK eventually accepted (the timer stopped).
Liveness1 ==
    \A n \in 1..MaxMsgs1 :
        (Len(submitted1) = n /\ timer1) ~> (Len(delivered1) >= n /\ ~timer1)

\* C2: the payloads delivered upward are a prefix of the messages submitted
\* to send, in every reachable state.
InOrderExactlyOnce1 == IsPrefix(delivered1, submitted1)

ValidPkt(pkt) == pkt.checksum = calc_checksum(pkt)

\* C3: recv of a checksum-valid packet whose seqnum is the last accepted
\* seqnum sends exactly one packet, an ACK for that seqnum with a consistent
\* checksum, and delivers nothing upward.
DuplicateSuppressed1 ==
    (/\ last1.op = "rcv_recv"
     /\ ValidPkt(last1.pkt)
     /\ last1.pkt.seqnum = last1.pre.rcv.last_acked)
    => /\ last1.l5 = <<>>
       /\ Len(last1.l3) = 1
       /\ last1.l3[1].seqnum = last1.pkt.seqnum
       /\ last1.l3[1].acknum = last1.pkt.seqnum
       /\ ValidPkt(last1.l3[1])

\* C3 witness: the receiver has just received, intact, a retransmission of
\* the packet it delivered last.
DuplicateReceived1 ==
    /\ last1.op = "rcv_recv"
    /\ ValidPkt(last1.pkt)
    /\ last1.pkt.seqnum = last1.pre.rcv.last_acked
    /\ delivered1 # <<>>
    /\ last1.pkt.payload = delivered1[Len(delivered1)]
    /\ Len(delivered1) = 1
    /\ Len(submitted1) = 1

\* C4: a send invoked while a packet is outstanding (the timer is running)
\* sends nothing to layer 3, keeps the retained message and starts no timer.
OneOutstanding1 ==
    (last1.op = "send" /\ last1.pre.timer)
    => /\ last1.l3 = <<>>
       /\ last1.post.message = last1.pre.snd.message
       /\ last1.tm = <<>>

(* ============================ part 2: claims =========================== *)

InWindow2(self, k) ==
    /\ k \in 0..(self.seqnum_limit - 1)
    /\ (k - self.base) % self.seqnum_limit < Outstanding2(self)

\* C5: (next_seq - base) mod seqnum_limit never exceeds window_size, and a
\* send attempted with window_size packets outstanding is rejected (the run
\* aborts and nothing is transmitted).
WindowBound2 ==
    /\ Outstanding2(snd2) <= snd2.window_size
    /\ (last2.op = "send" /\ Outstanding2(last2.pre.snd) = last2.pre.snd.window_size)
       => (last2.raised = "SystemExit" /\ last2.l3 = <<>>)

\* C6: the payloads delivered upward are the first messages submitted, in
\* order: delivered2 is a prefix of Msg2(1), Msg2(2), ...
InOrderExactlyOnce2 ==
    /\ Len(delivered2) <= nsubmitted2
    /\ \A i \in 1..Len(delivered2) : delivered2[i] = Msg2(i)

\* C7: under Live2 (fair channel and timer, application respecting the
\* window) the n-th message submitted is eventually delivered upward.
Liveness2 ==
    \A n \in 1..MaxMsgsLive2 : (nsubmitted2 >= n) ~> (Len(delivered2) >= n)

\* C8: an intact packet whose acknum k lies in [base, next_seq) modulo
\* seqnum_limit removes exactly the seqnums base..k from the buffer, sets base
\* to (k + 1) mod seqnum_limit and leaves the rest of the buffer and next_seq.
CumulativeAck2 ==
    (/\ last2.op = "snd_recv"
     /\ ValidPkt(last2.pkt)
     /\ InWindow2(last2.pre.snd, last2.pkt.acknum))
    => LET pre == last2.pre.snd
           post == last2.post
           k == last2.pkt.acknum
           acked == {x \in 0..(pre.seqnum_limit - 1) :
                        (x - pre.base) % pre.seqnum_limit
                            <= (k - pre.base) % pre.seqnum_limit}
       IN  /\ post.base = (k + 1) % pre.seqnum_limit
           /\ post.cur_seqnum = pre.cur_seqnum
           /\ DOMAIN post.buffer = (DOMAIN pre.buffer) \ acked
           /\ \A x \in DOMAIN post.buffer : post.buffer[x] = pre.buffer[x]

\* the receiver's recv took a packet that is intact and carries the expected seqnum
InOrder2 ==
    /\ last2.op = "rcv_recv"
    /\ ValidPkt(last2.pkt)
    /\ last2.pkt.seqnum = last2.pre.rcv.seqnum

\* C9: to_layer5 is called exactly when the packet is intact and carries the
\* expected seqnum, which then advances by one modulo seqnum_limit; any other
\* packet is not passed up and leaves the expected seqnum unchanged.
InOrderOnly2 ==
    last2.op = "rcv_recv"
    => IF InOrder2
       THEN /\ last2.l5 = <<last2.pkt.payload>>
            /\ last2.post.seqnum = (last2.pre.rcv.seqnum + 1) % last2.pre.rcv.seqnum_limit
       ELSE /\ last2.l5 = <<>>
            /\ last2.post.seqnum = last2.pre.rcv.seqnum

\* C9 witness: after delivering in order past the wrap-around of the
\* seqnums, the receiver has just turned down an intact out-of-order packet.
OutOfOrderRejected2 ==
    /\ last2.op = "rcv_recv"
    /\ ValidPkt(last2.pkt)
    /\ last2.pkt.seqnum # last2.pre.rcv.seqnum
    /\ last2.l5 = <<>>
    /\ Len(delivered2) > last2.pre.rcv.seqnum_limit

\* C10: the reply to a rejected packet carries acknum = (expected_seq - 1)
\* mod seqnum_limit, the last seqnum delivered in order.
ReAckLastInOrder2 ==
    (last2.op = "rcv_recv" /\ ~InOrder2)
    => /\ Len(last2.l3) = 1
       /\ last2.l3[1].acknum = (last2.pre.rcv.seqnum - 1) % last2.pre.rcv.seqnum_limit

(* ====================== claims on both protocols ====================== *)

\* the calls tm to start_timer/stop_timer, made in order from a state where
\* the timer is running or not, include a start_timer on a running timer
RECURSIVE StartsWhileRunning(_, _)
StartsWhileRunning(running, tm) ==
    IF tm = <<>> THEN FALSE
    ELSE IF Head(tm) = "start"
         THEN running \/ StartsWhileRunning(TRUE, Tail(tm))
         ELSE StartsWhileRunning(FALSE, Tail(tm))

\* C11: no call into a sender of either protocol calls start_timer while the
\* sender's timer is running.
SingleTimer ==
    /\ ~StartsWhileRunning(last1.pre.timer, last1.tm)
    /\ ~StartsWhileRunning(last2.pre.timer, last2.tm)

InRange(pkt, seqnum_limit) ==
    /\ pkt.seqnum \in 0..(seqnum_limit - 1)
    /\ pkt.acknum \in 0..(seqnum_limit - 1)

\* the packets a call handed to to_layer3 are in range, where the call is a
\* sender's or a receiver's recv of an uncorrupted packet
SentInRange(last) ==
    (\/ last.op \in {"send", "timer_interrupt"}
     \/ last.op = "rcv_recv" /\ ValidPkt(last.pkt))
    => \A i \in DOMAIN last.l3 : InRange(last.l3[i], last.post.seqnum_limit)

\* C12: for every seqnum_limit >= 1, every data packet, ACK and NAK in reply
\* to an uncorrupted packet handed to to_layer3 has seqnum and acknum in
\* 0..seqnum_limit-1.
SeqnumRange == SentInRange(last1) /\ SentInRange(last2)

(* ========================= claims on the checksum ====================== *)

\* the checksum of the specification: the complement, in 16 bits, of the
\* one's-complement sum of the payload's words, seqnum and acknum, every
\* addition with end-around carry
ReferenceChecksum(pkt) ==
    65535 - Fold(Fold(SumWords(pkt.payload, 1, 0) + pkt.seqnum) + pkt.acknum)

\* C13: the checksum calc_checksum gives a packet is a 16-bit value, the one
\* the reference gives.
ChecksumIsReference ==
    ckRcv # NoPkt
    => /\ ckPkt.checksum \in 0..65535
       /\ ckPkt.checksum = ReferenceChecksum(ckPkt)

\* C14: the checksum recomputed on the packet received equals the stored one
\* when the packet is as sent, and differs when one bit of the payload, of
\* seqnum or of acknum was flipped.
SingleBitDetected ==
    ckRcv # NoPkt
    => (calc_checksum(ckRcv) = ckRcv.checksum <=> ckRcv = ckPkt)

\* C14 witness: a packet whose word sum carries, received with a payload bit
\* flipped.
BitFlipped ==
    /\ ckRcv # NoPkt
    /\ ckPkt.payload = Fill(255)
    /\ ckRcv.payload # ckPkt.payload
    /\ ckRcv.seqnum = ckPkt.seqnum

(* ===================== part 1: claims on the recvs ===================== *)

\* the sender's recv took an intact packet that is no NAK and acknowledges the
\* pending seqnum
AckAccepted1 ==
    /\ last1.op = "snd_recv"
    /\ ValidPkt(last1.pkt)
    /\ last1.pkt.payload # NAK_PAYLOAD
    /\ last1.pkt.acknum = last1.pre.snd.cur_seqnum

\* C15: the sender's recv changes the sender exactly when the packet is
\* intact, no NAK and acknowledges the pending seqnum; it then confirms the
\* pending seqnum, advances it modulo seqnum_limit and stops the timer; any
\* other packet changes no field, sends nothing and touches no timer.
SndRecvFrame1 ==
    last1.op = "snd_recv"
    => LET pre == last1.pre.snd
           post == last1.post
       IN  /\ (post # pre) <=> AckAccepted1
           /\ last1.l3 = <<>>
           /\ last1.l5 = <<>>
           /\ IF AckAccepted1
              THEN /\ post = [pre EXCEPT
                                !.seqnum = pre.cur_seqnum,
                                !.acknum = pre.cur_seqnum,
                                !.cur_seqnum = (pre.cur_seqnum + 1) % pre.seqnum_limit]
                   /\ last1.tm = <<"stop">>
                   /\ ~timer1
              ELSE /\ last1.tm = <<>>
                   /\ timer1 = last1.pre.timer

\* C15 witness: the sender has just discarded an intact NAK for the pending
\* seqnum, after accepting the ACK of an earlier message.
NakDiscarded1 ==
    /\ last1.op = "snd_recv"
    /\ ValidPkt(last1.pkt)
    /\ last1.pkt.payload = NAK_PAYLOAD
    /\ last1.pkt.acknum = last1.pre.snd.cur_seqnum
    /\ last1.pre.snd.seqnum = 1
    /\ last1.pre.timer

\* the receiver's recv took a packet that is corrupt or carries neither the
\* expected nor the last accepted seqnum
Rejected1 ==
    /\ last1.op = "rcv_recv"
    /\ \/ ~ValidPkt(last1.pkt)
       \/ last1.pkt.seqnum \notin {last1.pre.rcv.seqnum, last1.pre.rcv.last_acked}

\* C16: on a rejected packet the receiver sends exactly one packet, a NAK
\* with the blank payload, acknum = the incoming seqnum, seqnum = the
\* expected seqnum and a consistent checksum, passes nothing up and keeps
\* its expected and last accepted seqnums.
NakOnReject1 ==
    Rejected1
    => /\ Len(last1.l3) = 1
       /\ last1.l3[1].payload = NAK_PAYLOAD
       /\ last1.l3[1].acknum = last1.pkt.seqnum
       /\ last1.l3[1].seqnum = last1.pre.rcv.seqnum
       /\ ValidPkt(last1.l3[1])
       /\ last1.l5 = <<>>
       /\ last1.post = last1.pre.rcv

\* C16 witness: after a delivery, the receiver has just rejected a packet
\* whose seqnum was corrupted.
CorruptRejected1 ==
    /\ Rejected1
    /\ last1.pkt.seqnum = CORRUPT_NUM
    /\ Len(delivered1) = 1

(* ============== part 2: claims on the timer and the buffer ============= *)

\* C17: a send that is accepted starts the timer exactly when the buffer was
\* empty before the call, and leaves the timer running.
TimerArmedOnSend2 ==
    (last2.op = "send" /\ last2.raised = "none")
    => /\ (last2.tm = <<"start">>) <=> (DOMAIN last2.pre.snd.buffer = {})
       /\ last2.tm \in {<<>>, <<"start">>}
       /\ timer2

\* C18: timer_interrupt restarts the timer and hands to layer 3 the buffered
\* packet of each seqnum from base up to next_seq, modulo seqnum_limit, in
\* that order.
ResendWindow2 ==
    last2.op = "timer_interrupt"
    => LET pre == last2.pre.snd
       IN  /\ last2.raised = "none"
           /\ last2.tm = <<"start">>
           /\ Len(last2.l3) = Outstanding2(pre)
           /\ \A i \in 1..Outstanding2(pre) :
                 LET k == (pre.base + i - 1) % pre.seqnum_limit
                 IN  /\ k \in DOMAIN pre.buffer
                     /\ i \in DOMAIN last2.l3
                     /\ last2.l3[i] = pre.buffer[k]

BufferInvariant2 ==
    /\ DOMAIN snd2.buffer =
          {k \in 0..(snd2.seqnum_limit - 1) : InWindow2(snd2, k)}
    /\ \A k \in DOMAIN snd2.buffer : snd2.buffer[k].seqnum = k

(* ================ part 2: claims on the sender's recv ================== *)

\* the sender's recv took an intact packet whose acknum is in
\* [base, base + window_size] and in [base, next_seq)
AckAccepted2 ==
    /\ last2.op = "snd_recv"
    /\ ValidPkt(last2.pkt)
    /\ last2.pre.snd.base <= last2.pkt.acknum
    /\ last2.pkt.acknum <= last2.pre.snd.base + last2.pre.snd.window_size
    /\ last2.pkt.acknum < last2.pre.snd.cur_seqnum

\* C21: a packet the sender's recv does not take as a cumulative ACK (bad
\* checksum, acknum outside [base, base + window_size] or outside
\* [base, next_seq)) changes no field of the sender, sends nothing, touches
\* no timer and does not abort the run.
DiscardFrame2 ==
    (last2.op = "snd_recv" /\ ~AckAccepted2)
    => /\ last2.post = last2.pre.snd
       /\ last2.l3 = <<>>
       /\ last2.l5 = <<>>
       /\ last2.tm = <<>>
       /\ timer2 = last2.pre.timer
       /\ last2.raised = "none"
       /\ halted2 = "none"

\* C21 witness: with packets outstanding and the timer running, the sender
\* has just discarded an intact packet whose acknum is in
\* [base, base + window_size] but not below next_seq.
InRangeDiscarded2 ==
    /\ last2.op = "snd_recv"
    /\ ValidPkt(last2.pkt)
    /\ last2.pre.snd.base <= last2.pkt.acknum
    /\ last2.pkt.acknum <= last2.pre.snd.base + last2.pre.snd.window_size
    /\ last2.pkt.acknum >= last2.pre.snd.cur_seqnum
    /\ DOMAIN last2.pre.snd.buffer # {}
    /\ last2.pre.timer

\* C22: every packet the sender's recv removes from the buffer carries a
\* message the receiver has already passed to to_layer5.
NoEvictUndelivered2 ==
    last2.op = "snd_recv"
    => \A k \in (DOMAIN last2.pre.snd.buffer) \ (DOMAIN last2.post.buffer) :
          \E i \in 1..Len(delivered2) :
              delivered2[i] = last2.pre.snd.buffer[k].payload

\* C23: while the buffer holds a packet, the timer is running.
TimerWhenOutstanding2 == (DOMAIN snd2.buffer # {}) => timer2

(* ================== part 1: the ACK of a blank message ================= *)

\* C24: in a run with no loss and no corruption so far (the receiver has sent
\* no NAK), an intact packet that acknowledges the pending seqnum while the
\* timer is running is accepted by the sender's recv, whatever its payload:
\* the pending seqnum advances and the timer is stopped.
AckNotNak1 ==
    (/\ last1.op = "snd_recv"
     /\ faults1 = 0
     /\ ValidPkt(last1.pkt)
     /\ last1.pkt.acknum = last1.pre.snd.cur_seqnum
     /\ last1.pre.timer)
    => /\ last1.post.cur_seqnum =
             (last1.pre.snd.cur_seqnum + 1) % last1.pre.snd.seqnum_limit
       /\ last1.tm = <<"stop">>

(* ============== part 2: the lookups of timer_interrupt ================= *)

\* C25: while the timer is running, every seqnum of range(base, cur_seqnum)
\* is a key of the buffer, and no call has raised KeyError.
NoKeyError2 ==
    /\ timer2 => \A k \in snd2.base..(snd2.cur_seqnum - 1) : k \in DOMAIN snd2.buffer
    /\ last2.raised # "KeyError"
    /\ halted2 # "KeyError"

\* C25 witness: after an ACK moved base and deleted buffer entries, a
\* timer_interrupt has just looked up and resent the outstanding packets.
ResentAfterAck2 ==
    /\ last2.op = "timer_interrupt"
    /\ last2.pre.snd.base >= 1
    /\ Len(last2.l3) >= 1
    /\ last2.raised = "none"

=============================================================================
